---- MODULE Spec2Model ----
(***************************************************************************)
(* The run lifecycle of components/image-transformer.tsx: the React state  *)
(* of ImageTransformer, its handlers (onDrop, handleRemoveImage,           *)
(* generateImage, handleCancel, fetchPastRuns), the interval timers of     *)
(* startProgressSimulation and the remote calls in flight.                 *)
(*                                                                         *)
(* One action is one uninterrupted run of JavaScript: an event handler up  *)
(* to its first await, or the continuation of an await up to the next one. *)
(* The state updates of one such run are committed together before the     *)
(* next event, timer or continuation runs, so the handlers of the next     *)
(* render read the values written here.                                    *)
(***************************************************************************)
EXTENDS Naturals, Sequences, FiniteSets

(* ------------------------------ bounds --------------------------------- *)

\* generateImage invocations that may be unfinished at the same time
MaxGens == 2
\* interval timers of startProgressSimulation that may be live at the same time
MaxIntervals == 1
\* handleCancel invocations that may be awaiting cancelRun at the same time
MaxCancels == 1

(* ------------------------- program constants --------------------------- *)

\* onDrop: 10 * 1024 * 1024
MaxFileSize == 10485760
\* the tick of startProgressSimulation
ProgressStep == 5
ProgressCap == 95
\* generateImage on success
ProgressDone == 100

(* ------------------------------ values --------------------------------- *)

Null == "null"
\* JavaScript strings are sequences of characters
EmptyString == << >>
\* a File is told from another by its size; null is no file
File(size) == <<"File", size>>
FileSize(file) == file[2]
NoFile == << >>
\* what generateImage shows or reports in a step: the message of its alert(),
\* the rejection of its promise (which no caller handles), or nothing
NoSignal == "none"
UnhandledRejection == "unhandled rejection"
SelectImageAlert == "Please select an image first"
TimeoutAlert == "Image processing took too long to complete. Please try again."
GenericAlert == "Error processing image. Please try again."

\* the sizes of the files the user can drop
FileSizes == {MaxFileSize, MaxFileSize + 1}
\* what the user drops (multiple: false): no accepted file or one file
DroppedFiles == {<< >>} \cup {<<File(s)>> : s \in FileSizes}
\* URL.createObjectURL(file)
CreateObjectURL(file) == <<"blob", file>>

\* runs of the remote service: the runId and download_url of a FlowscaleResponse
RunIds == {"run1", "run2"}
DownloadUrl(id) == <<"https://x/out.png", id>>
\* response.data.runs of a RunsResponse
RunLists == {<< >>, <<"run1">>}
\* response.data.runs of a response whose data holds no runs: undefined,
\* which is no list of runs
UndefinedRuns == <<"undefined">>

TimedOut == <<"t","i","m","e","d"," ","o","u","t">>
RequestTimedOut == <<"R","e","q","u","e","s","t"," ">> \o TimedOut
NetworkError == <<"N","e","t","w","o","r","k"," ","E","r","r","o","r">>
\* the message of the TypeError of reading a property of null or undefined
CannotRead == <<"C","a","n","n","o","t"," ","r","e","a","d">>
GenerationFailed == <<"G","e","n","e","r","a","t","i","o","n"," ","f","a","i","l","e","d">>

\* String.prototype.includes
Includes(s, sub) ==
    \E i \in 0..(Len(s) - Len(sub)) : SubSeq(s, i + 1, i + Len(sub)) = sub

\* inputFile, previewUrl, isLoading, uploadProgress, outputImageUrl,
\* currentRunId, pastRuns: the useState values of lines 65-73 (promptText and
\* isCollapsibleOpen decide nothing and are left out)
\* intervals:    the live interval timers of startProgressSimulation
\* gens:         the unfinished invocations of generateImage
\* cancels:      the cancelRun calls awaited by handleCancel, per run id
\* mountFetch:   the fetchPastRuns of the mount effect: "unmounted" (the
\*               component has not rendered), "getRuns" or "done"
\* signal:       what generateImage showed or reported in the last step
\* cancelIssued: a cancelRun call has been issued (history, read by no action)
\* env:          process.env as the module reads it (lines 42-58)
\* flowscale:    the module's FlowscaleAPI client (line 58), or none
\* loadError:    the message of the Error thrown by the module's evaluation
VARIABLES inputFile, previewUrl, isLoading, uploadProgress, outputImageUrl,
          currentRunId, pastRuns, intervals, gens, cancels, mountFetch, signal,
          cancelIssued, env, flowscale, loadError

vars == <<inputFile, previewUrl, isLoading, uploadProgress, outputImageUrl,
          currentRunId, pastRuns, intervals, gens, cancels, mountFetch, signal,
          cancelIssued, env, flowscale, loadError>>

\* the React state of the run lifecycle
runState == <<isLoading, uploadProgress, outputImageUrl, currentRunId, pastRuns>>
\* the remote calls in flight and the live timers
inFlight == <<gens, cancels, mountFetch, intervals>>

\* the state of the module, outside the component
moduleState == <<env, flowscale, loadError>>
\* the state of the component
componentState == <<inputFile, previewUrl, runState, inFlight, signal, cancelIssued>>

(* ----------------------------- module load ----------------------------- *)

\* the variables of process.env the module reads
EnvNames == {"NEXT_PUBLIC_FLOWSCALE_API_KEY", "NEXT_PUBLIC_FLOWSCALE_API_URL",
             "NEXT_PUBLIC_FLOWSCALE_WORKFLOW_ID"}
\* a variable of process.env is undefined, or a string, which may be empty
Undefined == "undefined"
EnvValues == {Undefined, "", "v"}
\* !process.env.X: undefined and the empty string are falsy
Not(v) == v = Undefined \/ v = ""

NoClient == [constructed |-> FALSE]
\* new FlowscaleAPI({apiKey, baseUrl, allowDangerouslyExposeApiKey: true})
FlowscaleAPI(apiKey, baseUrl) ==
    [constructed |-> TRUE, apiKey |-> apiKey, baseUrl |-> baseUrl,
     allowDangerouslyExposeApiKey |-> TRUE]
NoError == "none"
\* the Error of lines 43, 47 and 51, which names the variable
NotDefined(name) == name

\* lines 42-62 without the test of lines 50-52
LoadModuleNoWorkflowTest ==
    /\ flowscale = NoClient
    /\ loadError = NoError
    /\ IF Not(env["NEXT_PUBLIC_FLOWSCALE_API_KEY"])
       THEN /\ loadError' = NotDefined("NEXT_PUBLIC_FLOWSCALE_API_KEY")
            /\ UNCHANGED flowscale
       ELSE IF Not(env["NEXT_PUBLIC_FLOWSCALE_API_URL"])
       THEN /\ loadError' = NotDefined("NEXT_PUBLIC_FLOWSCALE_API_URL")
            /\ UNCHANGED flowscale
       ELSE /\ flowscale' = FlowscaleAPI(env["NEXT_PUBLIC_FLOWSCALE_API_KEY"],
                                         env["NEXT_PUBLIC_FLOWSCALE_API_URL"])
            /\ UNCHANGED loadError
    /\ UNCHANGED <<env, componentState>>

\* lines 42-62: the evaluation of the module, which throws or constructs
\* the client
LoadModule ==
    /\ flowscale = NoClient
    /\ loadError = NoError
    /\ IF Not(env["NEXT_PUBLIC_FLOWSCALE_API_KEY"])
       THEN /\ loadError' = NotDefined("NEXT_PUBLIC_FLOWSCALE_API_KEY")
            /\ UNCHANGED flowscale
       ELSE IF Not(env["NEXT_PUBLIC_FLOWSCALE_API_URL"])
       THEN /\ loadError' = NotDefined("NEXT_PUBLIC_FLOWSCALE_API_URL")
            /\ UNCHANGED flowscale
       ELSE IF Not(env["NEXT_PUBLIC_FLOWSCALE_WORKFLOW_ID"])
       THEN /\ loadError' = NotDefined("NEXT_PUBLIC_FLOWSCALE_WORKFLOW_ID")
            /\ UNCHANGED flowscale
       ELSE /\ flowscale' = FlowscaleAPI(env["NEXT_PUBLIC_FLOWSCALE_API_KEY"],
                                         env["NEXT_PUBLIC_FLOWSCALE_API_URL"])
            /\ UNCHANGED loadError
    /\ UNCHANGED <<env, componentState>>

\* lines 64-73 and 174-176: the component the module exports renders for the
\* first time and its mount effect calls fetchPastRuns
Mounted == mountFetch # "unmounted"
Mount ==
    /\ flowscale # NoClient
    /\ ~Mounted
    /\ mountFetch' = "getRuns"
    /\ UNCHANGED <<inputFile, previewUrl, runState, intervals, gens, cancels,
                   signal, cancelIssued, moduleState>>

(* --------------------------- generateImage ----------------------------- *)

\* One unfinished invocation of generateImage.  pc: "execute" (awaiting
\* executeWorkflowAsync, line 151) or "getRuns" (awaiting fetchPastRuns, line
\* 157).  cancelled: handleCancel was invoked while the invocation was
\* awaiting executeWorkflowAsync (history, read by no action).  gens holds
\* them in the order they started.
NewGen == [pc |-> "execute", cancelled |-> FALSE]

Remove(seq, i) == SubSeq(seq, 1, i - 1) \o SubSeq(seq, i + 1, Len(seq))

\* the settlements of executeWorkflowAsync: a FlowscaleResponse, a value that
\* is no FlowscaleResponse (null, or one without data), or a rejection with a
\* thrown value ("nullish": the value is null or undefined and has no
\* properties; typeofMessage: typeof error.message)
SuccessResponses ==
    [kind : {"response"}, status : {"success"},
     generation_status : {"success"}, runId : RunIds]
Responses ==
    SuccessResponses \cup
    [kind : {"response"}, status : {"success", "error"},
     generation_status : {"success", "failed"}, runId : {"run1"}]
Malformed == {[kind |-> "malformed"]}
Thrown ==
    {[kind |-> "thrown", nullish |-> TRUE, typeofMessage |-> "undefined",
      message |-> EmptyString]} \cup
    [kind : {"thrown"}, nullish : {FALSE}, typeofMessage : {"string"},
     message : {RequestTimedOut, NetworkError}] \cup
    {[kind |-> "thrown", nullish |-> FALSE, typeofMessage |-> "undefined",
      message |-> EmptyString]}
Settlements == Responses \cup Malformed \cup Thrown

\* the settlements of getRuns: a RunsResponse, a response whose data holds
\* no runs (reading data.runs gives undefined), a value without data
\* (reading data.runs throws a TypeError), or a rejection
RunsSettlements ==
    [kind : {"response"}, runs : RunLists \cup {UndefinedRuns}] \cup
    {[kind |-> "malformed"], [kind |-> "thrown"]}

\* line 154
IsSuccess(result) ==
    /\ result.kind = "response"
    /\ result.status = "success"
    /\ result.generation_status = "success"

\* what reaches the catch clause of generateImage (lines 151-161): the
\* rejection of the call, the TypeError of reading a malformed result, or
\* the Error of line 159
Caught(result) ==
    CASE result.kind = "thrown" -> result
      [] result.kind = "malformed" ->
            [kind |-> "thrown", nullish |-> FALSE, typeofMessage |-> "string",
             message |-> CannotRead]
      [] OTHER ->
            [kind |-> "thrown", nullish |-> FALSE, typeofMessage |-> "string",
             message |-> GenerationFailed]

\* lines 162-167: reading error.message of null or undefined throws out of
\* the catch clause; no alert is shown and the promise of generateImage rejects
CatchThrows(error) == error.nullish

\* lines 163-167
FailureAlert(error) ==
    IF error.typeofMessage = "string" /\ Includes(error.message, TimedOut)
    THEN TimeoutAlert
    ELSE GenericAlert

\* lines 94-105: setUploadProgress(0) and a new interval timer
startProgressSimulation ==
    /\ uploadProgress' = 0
    /\ intervals' = intervals + 1

\* lines 140-151 without the setOutputImageUrl('') of line 143
StartRunKeepsOutput(shown) ==
    /\ Len(gens) < MaxGens
    /\ intervals < MaxIntervals
    /\ gens' = Append(gens, NewGen)
    /\ isLoading' = TRUE
    /\ startProgressSimulation
    /\ signal' = shown
    /\ UNCHANGED <<outputImageUrl, currentRunId, pastRuns, cancels, mountFetch,
                   cancelIssued>>

\* lines 140-151, up to the await: the run starts
StartRun(shown) ==
    /\ Len(gens) < MaxGens
    /\ intervals < MaxIntervals
    /\ gens' = Append(gens, NewGen)
    /\ isLoading' = TRUE
    /\ startProgressSimulation
    /\ outputImageUrl' = EmptyString
    /\ signal' = shown
    /\ UNCHANGED <<currentRunId, pastRuns, cancels, mountFetch, cancelIssued>>

\* generateImage without the return of line 137
generateImageNoReturn ==
    StartRun(IF inputFile = NoFile THEN SelectImageAlert ELSE NoSignal)

\* lines 134-151, up to the await
generateImage ==
    IF inputFile = NoFile
    THEN /\ signal' = SelectImageAlert
         /\ UNCHANGED <<runState, inFlight, cancelIssued>>
    ELSE StartRun(NoSignal)

\* lines 274-277: the button that calls generateImage
TransformDisabled == inputFile = NoFile \/ isLoading

ClickTransform ==
    /\ Mounted
    /\ ~TransformDisabled
    /\ generateImage
    /\ UNCHANGED <<inputFile, previewUrl>>
    /\ UNCHANGED moduleState

\* generateImage called with no file selected (lines 135-138)
SubmitWithoutFile ==
    /\ Mounted
    /\ inputFile = NoFile
    /\ generateImage
    /\ UNCHANGED <<inputFile, previewUrl>>
    /\ UNCHANGED moduleState

\* lines 125-132, after the await of getRuns
fetchPastRunsSettled(response) ==
    pastRuns' = IF response.kind = "response" THEN response.runs ELSE pastRuns

\* lines 152-157 without the setOutputImageUrl of line 156
ApplySuccessNoUrl(g, result) ==
    /\ currentRunId' = result.runId
    /\ uploadProgress' = ProgressDone
    /\ gens' = [gens EXCEPT ![g] = [pc |-> "getRuns", cancelled |-> FALSE]]
    /\ signal' = NoSignal
    /\ UNCHANGED <<isLoading, outputImageUrl>>

\* lines 152-157: the result is applied and fetchPastRuns is awaited
ApplySuccess(g, result) ==
    /\ currentRunId' = result.runId
    /\ uploadProgress' = ProgressDone
    /\ outputImageUrl' = DownloadUrl(result.runId)
    /\ gens' = [gens EXCEPT ![g] = [pc |-> "getRuns", cancelled |-> FALSE]]
    /\ signal' = NoSignal
    /\ UNCHANGED isLoading

\* lines 152 and 158-171: the catch and finally clauses; generateImage ends
ApplyFailure(g, result) ==
    /\ signal' = IF CatchThrows(Caught(result)) THEN UnhandledRejection
                 ELSE FailureAlert(Caught(result))
    /\ isLoading' = FALSE
    /\ currentRunId' = Null
    /\ gens' = Remove(gens, g)
    /\ UNCHANGED <<uploadProgress, outputImageUrl>>

\* lines 151-171, from the settlement of executeWorkflowAsync to the await
\* of fetchPastRuns (success) or to the end of generateImage (failure)
ExecuteSettled(g, result) ==
    /\ Mounted
    /\ g \in DOMAIN gens
    /\ gens[g].pc = "execute"
    /\ IF IsSuccess(result) THEN ApplySuccess(g, result) ELSE ApplyFailure(g, result)
    /\ UNCHANGED <<inputFile, previewUrl, pastRuns, intervals, cancels,
                   mountFetch, cancelIssued>>
    /\ UNCHANGED moduleState

ExecuteSettles == \E g \in 1..MaxGens : \E result \in Settlements : ExecuteSettled(g, result)

\* lines 157 and 168-171: fetchPastRuns settles and generateImage returns
HistorySettled(g, response) ==
    /\ Mounted
    /\ g \in DOMAIN gens
    /\ gens[g].pc = "getRuns"
    /\ fetchPastRunsSettled(response)
    /\ isLoading' = FALSE
    /\ currentRunId' = Null
    /\ gens' = Remove(gens, g)
    /\ signal' = NoSignal
    /\ UNCHANGED <<inputFile, previewUrl, uploadProgress, outputImageUrl,
                   intervals, cancels, mountFetch, cancelIssued>>
    /\ UNCHANGED moduleState

HistorySettles == \E g \in 1..MaxGens : \E response \in RunsSettlements : HistorySettled(g, response)

\* lines 174-176: the getRuns call issued on mount settles
MountFetchSettled(response) ==
    /\ Mounted
    /\ mountFetch = "getRuns"
    /\ fetchPastRunsSettled(response)
    /\ mountFetch' = "done"
    /\ signal' = NoSignal
    /\ UNCHANGED <<inputFile, previewUrl, isLoading, uploadProgress, outputImageUrl,
                   currentRunId, intervals, gens, cancels, cancelIssued>>
    /\ UNCHANGED moduleState

MountFetchSettles == \E response \in RunsSettlements : MountFetchSettled(response)

(* ------------------------- progress simulation ------------------------- *)

\* lines 96-104: one tick of one live interval timer
Tick ==
    /\ Mounted
    /\ intervals > 0
    /\ IF uploadProgress >= ProgressCap
       THEN /\ intervals' = intervals - 1
            /\ UNCHANGED uploadProgress
       ELSE /\ uploadProgress' = uploadProgress + ProgressStep
            /\ UNCHANGED intervals
    /\ signal' = NoSignal
    /\ UNCHANGED <<inputFile, previewUrl, isLoading, outputImageUrl, currentRunId,
                   pastRuns, gens, cancels, mountFetch, cancelIssued>>
    /\ UNCHANGED moduleState

(* ----------------------------- handleCancel ---------------------------- *)

\* the cancelRun calls in flight: how many for each run id
PendingCancels == LET Sum[S \in SUBSET RunIds] ==
                          IF S = {} THEN 0
                          ELSE LET id == CHOOSE x \in S : TRUE
                               IN cancels[id] + Sum[S \ {id}]
                  IN Sum[RunIds]

\* handleCancel without the test of line 113: cancelRun is called with
\* whatever currentRunId holds
handleCancelUnguarded ==
    /\ PendingCancels < MaxCancels
    /\ cancels' = [cancels EXCEPT ![IF currentRunId # Null THEN currentRunId
                                     ELSE "run1"] = @ + 1]
    /\ cancelIssued' = TRUE
    /\ gens' = [g \in DOMAIN gens |->
                  IF gens[g].pc = "execute"
                  THEN [gens[g] EXCEPT !.cancelled = TRUE] ELSE gens[g]]
    /\ signal' = NoSignal
    /\ UNCHANGED <<runState, intervals, mountFetch>>

\* lines 112-115, up to the await
handleCancel ==
    /\ IF currentRunId # Null
       THEN /\ PendingCancels < MaxCancels
            /\ cancels' = [cancels EXCEPT ![currentRunId] = @ + 1]
            /\ cancelIssued' = TRUE
       ELSE UNCHANGED <<cancels, cancelIssued>>
    /\ gens' = [g \in DOMAIN gens |->
                  IF gens[g].pc = "execute"
                  THEN [gens[g] EXCEPT !.cancelled = TRUE] ELSE gens[g]]
    /\ signal' = NoSignal
    /\ UNCHANGED <<runState, intervals, mountFetch>>

\* lines 239-251: the Cancel button is rendered while isLoading
ClickCancel ==
    /\ Mounted
    /\ isLoading
    /\ handleCancel
    /\ UNCHANGED <<inputFile, previewUrl>>
    /\ UNCHANGED moduleState

\* lines 115-121: cancelRun(id) settles
CancelSettled(id, ok) ==
    /\ Mounted
    /\ cancels[id] > 0
    /\ cancels' = [cancels EXCEPT ![id] = @ - 1]
    /\ IF ok
       THEN /\ isLoading' = FALSE
            /\ currentRunId' = Null
            /\ uploadProgress' = 0
       ELSE UNCHANGED <<isLoading, currentRunId, uploadProgress>>
    /\ signal' = NoSignal
    /\ UNCHANGED <<inputFile, previewUrl, outputImageUrl, pastRuns, intervals,
                   gens, mountFetch, cancelIssued>>
    /\ UNCHANGED moduleState

CancelSettles == \E id \in RunIds : \E ok \in BOOLEAN : CancelSettled(id, ok)

(* ------------------------------ file intake ---------------------------- *)

\* lines 85-92: useDropzone passes on the files within maxSize
Dropzone(files) ==
    LET Accepted(f) == FileSize(f) <= MaxFileSize IN SelectSeq(files, Accepted)

\* lines 75-83 without the setPreviewUrl of line 79
onDropNoPreview(acceptedFiles) ==
    /\ IF Len(acceptedFiles) > 0 /\ FileSize(acceptedFiles[1]) <= MaxFileSize
       THEN /\ inputFile' = acceptedFiles[1]
            /\ UNCHANGED previewUrl
       ELSE UNCHANGED <<inputFile, previewUrl>>
    /\ signal' = NoSignal

\* lines 75-83; the alert of line 81 changes no state
onDrop(acceptedFiles) ==
    /\ IF Len(acceptedFiles) > 0 /\ FileSize(acceptedFiles[1]) <= MaxFileSize
       THEN /\ inputFile' = acceptedFiles[1]
            /\ previewUrl' = CreateObjectURL(acceptedFiles[1])
       ELSE UNCHANGED <<inputFile, previewUrl>>
    /\ signal' = NoSignal

Drop ==
    /\ Mounted
    /\ \E files \in DroppedFiles : onDrop(Dropzone(files))
    /\ UNCHANGED <<runState, inFlight, cancelIssued>>
    /\ UNCHANGED moduleState

\* lines 107-110 and 201-217: the remove button is shown with the preview
handleRemoveImage ==
    /\ Mounted
    /\ previewUrl # EmptyString
    /\ inputFile' = NoFile
    /\ previewUrl' = EmptyString
    /\ signal' = NoSignal
    /\ UNCHANGED <<runState, inFlight, cancelIssued>>
    /\ UNCHANGED moduleState

(* ---------------------------- specification ---------------------------- *)

\* the process before the module is evaluated; the useState values are
\* the initial ones of lines 65-73
Init ==
    /\ inputFile = NoFile
    /\ previewUrl = EmptyString
    /\ isLoading = FALSE
    /\ uploadProgress = 0
    /\ outputImageUrl = EmptyString
    /\ currentRunId = Null
    /\ pastRuns = << >>
    /\ intervals = 0
    /\ gens = << >>
    /\ cancels = [id \in RunIds |-> 0]
    /\ mountFetch = "unmounted"
    /\ signal = NoSignal
    /\ cancelIssued = FALSE
    /\ env \in [EnvNames -> EnvValues]
    /\ flowscale = NoClient
    /\ loadError = NoError

\* the events, timers and continuations of the mounted component
Handlers ==
    \/ Drop
    \/ handleRemoveImage
    \/ ClickTransform
    \/ SubmitWithoutFile
    \/ ExecuteSettles
    \/ HistorySettles
    \/ MountFetchSettles
    \/ Tick
    \/ ClickCancel
    \/ CancelSettles

Next == LoadModule \/ Mount \/ Handlers

Spec == Init /\ [][Next]_vars

TypeOK ==
    /\ inputFile \in {NoFile} \cup {File(s) : s \in FileSizes}
    /\ isLoading \in BOOLEAN
    /\ uploadProgress \in 0..ProgressDone
    /\ currentRunId \in {Null} \cup RunIds
    /\ intervals \in 0..MaxIntervals

(* ------------------------ the run lifecycle states --------------------- *)

\* the invocations of generateImage awaiting executeWorkflowAsync
Executing == {g \in DOMAIN gens : gens[g].pc = "execute"}
\* AwaitingResult: a submit has started and its remote call has not settled
AwaitingResult == Executing # {}
\* the getRuns calls in flight
PendingGetRuns ==
    Cardinality({g \in DOMAIN gens : gens[g].pc = "getRuns"})
        + (IF mountFetch = "getRuns" THEN 1 ELSE 0)
\* a resolution with status = "success" and generation_status = "success"
RemoteSuccess(result) ==
    /\ result.kind = "response"
    /\ result.status = "success"
    /\ result.generation_status = "success"
\* the settlements that are such a resolution, and the others
SuccessSettlements ==
    [kind : {"response"}, status : {"success"},
     generation_status : {"success"}, runId : RunIds]
FailureSettlements == {result \in Settlements : ~RemoteSuccess(result)}
\* the resting state after a cancellation
CancelledState(loading, runId, progress) ==
    /\ loading = FALSE
    /\ runId = Null
    /\ progress = 0

(* -------------------------------- C1 ----------------------------------- *)

\* C1: when cancel() was invoked while the executeWorkflowAsync call of an
\* invocation was in flight and the call then resolves as successful, the
\* result is discarded: the state is Cancelled and outputImageUrl is not the
\* download_url of that run.
C1_LateResultDiscarded ==
    [][\A g \in DOMAIN gens : \A result \in SuccessSettlements :
          (gens[g].cancelled /\ ExecuteSettled(g, result))
          => /\ CancelledState(isLoading', currentRunId', uploadProgress')
             /\ outputImageUrl' # DownloadUrl(result.runId)]_vars

(* -------------------------------- C2 ----------------------------------- *)

\* C2: cancel() invoked while the controller is in AwaitingResult issues
\* exactly one cancelRun call (the one that, once settled, moves the
\* controller to Cancelled).
C2_CancelWhileAwaitingIssuesCancelRun ==
    [][(ClickCancel /\ AwaitingResult)
          => PendingCancels' = PendingCancels + 1]_vars

(* -------------------------------- C3 ----------------------------------- *)

\* C3: when the cancelRun call of cancel() rejects, the controller still
\* moves to Cancelled: isLoading false, currentRunId null, UiProgress 0.
C3_RejectedCancelStillCancels ==
    [][\A id \in RunIds :
          CancelSettled(id, FALSE)
          => CancelledState(isLoading', currentRunId', uploadProgress')]_vars

(* -------------------------------- C4 ----------------------------------- *)

\* C4: once the controller has left AwaitingResult, no timer tick changes
\* UiProgress.
C4_NoTickOutsideAwaitingResult ==
    [][(Tick /\ ~AwaitingResult) => uploadProgress' = uploadProgress]_vars

(* -------------------------------- C5 ----------------------------------- *)

C6_FailurePath ==
    [][\A g \in DOMAIN gens : \A result \in FailureSettlements :
          ExecuteSettled(g, result)
          => /\ isLoading' = FALSE
             /\ currentRunId' = Null
             /\ outputImageUrl' = EmptyString
             /\ uploadProgress' # 100
             /\ PendingGetRuns' = PendingGetRuns]_vars

(* -------------------------------- C7 ----------------------------------- *)

\* C7: when an invocation of generateImage ends, whatever the settlement of
\* its calls, isLoading is false, currentRunId is null, a new submit is
\* accepted and no rejection has escaped generateImage.
C7_NoPermanentLoading ==
    [][Len(gens') < Len(gens)
          => /\ isLoading' = FALSE
             /\ currentRunId' = Null
             /\ inputFile' # NoFile => ~TransformDisabled'
             /\ signal' # UnhandledRejection]_vars

(* -------------------------------- C8 ----------------------------------- *)

\* C8: at most one executeWorkflowAsync call is in flight.
C8_SingleEpisode == Cardinality(Executing) <= 1

(* -------------------------------- C9 ----------------------------------- *)

\* C9: while the controller is in AwaitingResult, UiProgress is at most 95.
C9_TickerBound == AwaitingResult => uploadProgress <= 95

(* -------------------------------- C10 ---------------------------------- *)

\* C10: submit() with no file shows the InvalidInput message and changes no
\* controller field, no call in flight and no timer; a run starts only with a
\* file set.
C10_SubmitWithoutFile ==
    [][/\ SubmitWithoutFile
          => /\ signal' = SelectImageAlert
             /\ UNCHANGED <<isLoading, uploadProgress, outputImageUrl,
                            currentRunId, pastRuns>>
             /\ UNCHANGED <<gens, cancels, mountFetch, intervals>>
       /\ (Len(gens') > Len(gens) \/ intervals' > intervals)
          => inputFile # NoFile]_vars

\* submit() with no file in the resting state Succeeded, whose output is kept
C10_Witness ==
    /\ signal = SelectImageAlert
    /\ inputFile = NoFile
    /\ ~isLoading
    /\ gens = << >>
    /\ outputImageUrl # EmptyString
    /\ uploadProgress = 100

(* -------------------------------- C11 ---------------------------------- *)

\* where each unfinished invocation of generateImage stands
Pcs(invocations) == [g \in DOMAIN invocations |-> invocations[g].pc]

\* C11: cancel() with currentRunId null is a no-op: it issues no cancelRun
\* call and changes no field of the controller, no timer and no call in
\* flight, so any number of such calls leaves what no call leaves.
C11_CancelWithoutRunIsNoOp ==
    [][(currentRunId = Null /\ ClickCancel)
          => /\ cancels' = cancels
             /\ UNCHANGED <<inputFile, previewUrl, isLoading, uploadProgress,
                            outputImageUrl, currentRunId, pastRuns>>
             /\ UNCHANGED <<intervals, mountFetch>>
             /\ Pcs(gens') = Pcs(gens)]_vars

\* cancel() was invoked with no run id while executeWorkflowAsync was in
\* flight, and no cancelRun call has ever been issued
C11_Witness ==
    /\ \E g \in DOMAIN gens : gens[g].pc = "execute" /\ gens[g].cancelled
    /\ ~cancelIssued
    /\ PendingCancels = 0
    /\ currentRunId = Null
    /\ isLoading

(* -------------------------------- C12 ---------------------------------- *)

\* the resting states between runs: nothing is loading.  Succeeded shows the
\* output at 100, Cancelled has UiProgress 0, Failed is any other.
Resting == ~isLoading

\* C12: in every resting state (Succeeded, Failed, Cancelled) with a file
\* present a submit() is accepted, and it enters AwaitingResult directly:
\* isLoading is true, UiProgress is 0, outputImageUrl is empty and exactly
\* one executeWorkflowAsync call has been issued (acceptance is stated
\* within the bounds on unfinished invocations and live timers).
C12_RestingStatesNotSticky ==
    /\ []((/\ Resting
            /\ inputFile # NoFile
            /\ Len(gens) < MaxGens
            /\ intervals < MaxIntervals) => ENABLED ClickTransform)
    /\ [][(Resting /\ ClickTransform)
            => /\ AwaitingResult'
               /\ isLoading'
               /\ uploadProgress' = 0
               /\ outputImageUrl' = EmptyString
               /\ Len(gens') = Len(gens) + 1
               /\ gens'[Len(gens')].pc = "execute"
               /\ Cardinality(Executing') = Cardinality(Executing) + 1]_vars

\* a run has just started after an earlier run was cancelled and after a run
\* history was received: the only invocation awaits executeWorkflowAsync
C12_Witness ==
    /\ cancelIssued
    /\ PendingCancels = 0
    /\ pastRuns # << >>
    /\ isLoading
    /\ gens = <<NewGen>>
    /\ uploadProgress = 0
    /\ outputImageUrl = EmptyString

(* -------------------------------- C13 ---------------------------------- *)

\* the call rejected with an error whose message contains "timed out"
RejectedWithTimeout(result) ==
    /\ result.kind = "thrown"
    /\ result.typeofMessage = "string"
    /\ Includes(result.message, TimedOut)

\* C13: a failed run produces exactly one message: the timeout message when
\* the call rejected with an error whose message contains "timed out", the
\* generic message for every other failure, a resolution without success
\* included.
C13_FailureMessage ==
    [][Len(gens') < Len(gens)
          => \A g \in DOMAIN gens : \A result \in FailureSettlements :
                ExecuteSettled(g, result)
                => signal' = IF RejectedWithTimeout(result)
                             THEN TimeoutAlert ELSE GenericAlert]_vars

(* -------------------------------- C14 ---------------------------------- *)

\* the API key, the base URL and the workflow id are all defined
AllDefined == \A name \in EnvNames : env[name] # Undefined

\* C14: the client exists only if the API key, the base URL and the
\* workflow id are all defined, and the component is in use only if the
\* client exists; when one of the three is absent the evaluation of the
\* module throws an error and constructs no client.
C14_StartupConfiguration ==
    /\ [](flowscale # NoClient => AllDefined)
    /\ [](Mounted => flowscale # NoClient)
    /\ [][(flowscale = NoClient /\ ~AllDefined /\ LoadModule)
            => /\ flowscale' = NoClient
               /\ loadError' # NoError]_vars

\* the module was evaluated with only the workflow id absent: it threw
C14_Witness ==
    /\ env["NEXT_PUBLIC_FLOWSCALE_API_KEY"] = "v"
    /\ env["NEXT_PUBLIC_FLOWSCALE_API_URL"] = "v"
    /\ env["NEXT_PUBLIC_FLOWSCALE_WORKFLOW_ID"] = Undefined
    /\ loadError = NotDefined("NEXT_PUBLIC_FLOWSCALE_WORKFLOW_ID")
    /\ flowscale = NoClient
    /\ ~Mounted

(* -------------------------------- C15 ---------------------------------- *)

\* C15: isLoading is true in every state in which an executeWorkflowAsync
\* call is in flight: the completion of a cancelRun call issued for an
\* earlier run does not clear the isLoading of the run that is awaiting its
\* result.
C15_LoadingWhileInFlight == AwaitingResult => isLoading

(* -------------------------------- C16 ---------------------------------- *)

\* C16: the state a completed cancel() leaves has an empty outputImageUrl,
\* also when cancel() was invoked after the result was applied and while the
\* history refresh of the run was in flight.
C16_CancelledExcludesOutput ==
    [][\A id \in RunIds :
          CancelSettled(id, TRUE)
          => /\ CancelledState(isLoading', currentRunId', uploadProgress')
             /\ outputImageUrl' = EmptyString]_vars

(* -------------------------------- C17 ---------------------------------- *)

\* C17: in every state with isLoading false, currentRunId is null.
C17_RunIdClearWhenResting == ~isLoading => currentRunId = Null

(* -------------------------------- C18 ---------------------------------- *)

\* a successful getRuns response: a RunsResponse, whose data.runs is a list
WellFormedRuns(response) ==
    /\ response.kind = "response"
    /\ response.runs \in RunLists

\* C18: one getRuns call is issued when the component mounts and none for
\* the mount later; RunHistory changes only when a getRuns call settles, and
\* then to the runs of a successful response; a rejected or malformed
\* response leaves it unchanged, and at the end of a run it also leaves
\* outputImageUrl and UiProgress as they are and produces no message.
C18_HistoryRefreshIsolation ==
    [][/\ Mount => PendingGetRuns' = PendingGetRuns + 1
       /\ mountFetch = "done" => mountFetch' = "done"
       /\ pastRuns' # pastRuns => PendingGetRuns' = PendingGetRuns - 1
       /\ PendingGetRuns' < PendingGetRuns
          => \A response \in RunsSettlements :
                /\ MountFetchSettled(response)
                   => pastRuns' = IF WellFormedRuns(response)
                                  THEN response.runs ELSE pastRuns
                /\ \A g \in DOMAIN gens :
                      HistorySettled(g, response)
                      => /\ pastRuns' = IF WellFormedRuns(response)
                                        THEN response.runs ELSE pastRuns
                         /\ outputImageUrl' = outputImageUrl
                         /\ uploadProgress' = uploadProgress
                         /\ signal' = NoSignal]_vars

(* -------------------------------- C19 ---------------------------------- *)

\* a drop that stores nothing: no file was accepted, or the file is over 10MB
RejectedDrop(files) == files = << >> \/ FileSize(files[1]) > MaxFileSize

\* C19: the preview is non-empty exactly when a file is stored; a stored
\* file has a size of at most 10MB and its preview is the object URL of that
\* file; a rejected drop leaves the stored file and the preview unchanged.
C19_PendingInput ==
    /\ [](previewUrl # EmptyString <=> inputFile # NoFile)
    /\ [](inputFile # NoFile
            => /\ FileSize(inputFile) <= MaxFileSize
               /\ previewUrl = CreateObjectURL(inputFile))
    /\ [][(inputFile' # inputFile \/ previewUrl' # previewUrl)
            => \A files \in DroppedFiles :
                  RejectedDrop(files) => ~(Mounted /\ onDrop(Dropzone(files)))]_vars

\* a file of exactly 10MB was dropped and is stored with its preview
C19_Witness ==
    /\ inputFile = File(MaxFileSize)
    /\ previewUrl = CreateObjectURL(File(MaxFileSize))

====
